---- MODULE Spec2Model ----
(***************************************************************************)
(* Model of scripts/convert_cr_animations.py: the conversion of Cosmic     *)
(* Reach animation JSON into Rigel's animation format.                     *)
(*                                                                         *)
(* JSON values are records of one uniform shape, discriminated by t.       *)
(* A string is a sequence of characters; a character is a TLA+ string.     *)
(* Names that are never parsed (keys, file names) are written as one       *)
(* opaque character.  A float is [k, v]: k is "fin", "inf" or "nan";       *)
(* a finite float holds its value in units of 1/Scale.  An int is n*10^e.  *)
(***************************************************************************)
EXTENDS Integers, Sequences, FiniteSets, TLC

VARIABLES
    pc,             \* where the conversion of one value stands
    input,          \* the value given to the converter
    result,         \* the value it returned
    diags,          \* what warn() has written to stderr
    exc,            \* the exception that left the program, or "none"
    round,          \* 1 once the output has been given back as the input
    fs,             \* the files: path -> file
    fs0,            \* the files as main found them
    args,           \* the parsed command line
    todo,           \* the input files main has still to visit
    found,          \* the input files iter_input_files yields
    calls,          \* the input files convert_file has been called with
    last,           \* the last call of convert_file
    converted_any,
    status,         \* "running", "returned", or "aborted" by an exception
    exit_code

vars == <<pc, input, result, diags, exc, round,
          fs, fs0, args, todo, found, calls, last, converted_any, status, exit_code>>

mainVars == <<fs, fs0, args, todo, found, calls, last, converted_any, status, exit_code>>

----------------------------------------------------------------------------
(* Floats *)

\* float(): a finite value is kept to one decimal place, in units of
\* 1/Scale; an int above 10^FloatMax10Exp is too large for a float.
Scale == 10
FloatMax10Exp == 308

Fin(v) == [k |-> "fin", v |-> v]
NaN == [k |-> "nan", v |-> 0]
Inf(sgn) == [k |-> "inf", v |-> sgn]

\* Python's float < float: every comparison with nan is false.
FloatLt(a, b) ==
    CASE a.k = "nan" \/ b.k = "nan" -> FALSE
      [] a.k = "fin" /\ b.k = "fin" -> a.v < b.v
      [] a.k = "fin" /\ b.k = "inf" -> b.v > 0
      [] a.k = "inf" /\ b.k = "fin" -> a.v < 0
      [] OTHER -> a.v < b.v

FloatLe(a, b) ==
    CASE a.k = "nan" \/ b.k = "nan" -> FALSE
      [] OTHER -> ~FloatLt(b, a)

----------------------------------------------------------------------------
(* JSON values *)

JV(t, b, n, e, f, s, items, pairs) ==
    [t |-> t, b |-> b, n |-> n, e |-> e, f |-> f, s |-> s,
     items |-> items, pairs |-> pairs]

JNull == JV("null", FALSE, 0, 0, Fin(0), <<>>, <<>>, <<>>)
JBool(b) == JV("bool", b, 0, 0, Fin(0), <<>>, <<>>, <<>>)
JInt(n) == JV("int", FALSE, n, 0, Fin(0), <<>>, <<>>, <<>>)
JBig(n, e) == JV("int", FALSE, n, e, Fin(0), <<>>, <<>>, <<>>)
JFloat(f) == JV("float", FALSE, 0, 0, f, <<>>, <<>>, <<>>)
JStr(s) == JV("str", FALSE, 0, 0, Fin(0), s, <<>>, <<>>)
JList(items) == JV("list", FALSE, 0, 0, Fin(0), <<>>, items, <<>>)
JDict(pairs) == JV("dict", FALSE, 0, 0, Fin(0), <<>>, <<>>, pairs)

KV(k, v) == [k |-> k, v |-> v]

\* dict: key in d
HasKey(d, key) == \E i \in 1..Len(d.pairs) : d.pairs[i].k = key

\* dict.get(key, default)
Get(d, key, default) ==
    IF HasKey(d, key)
    THEN d.pairs[CHOOSE i \in 1..Len(d.pairs) : d.pairs[i].k = key].v
    ELSE default

\* dict[key] = value on a dict that keeps insertion order
Put(d, key, value) ==
    IF HasKey(d, key)
    THEN JDict([i \in 1..Len(d.pairs) |->
                  IF d.pairs[i].k = key THEN KV(key, value) ELSE d.pairs[i]])
    ELSE JDict(Append(d.pairs, KV(key, value)))

----------------------------------------------------------------------------
(* Strings *)

Whitespace == {" "}
Digits == {"0", "1", "2", "3", "4", "5", "6", "7", "8", "9"}

DigitVal(c) ==
    CASE c = "0" -> 0 [] c = "1" -> 1 [] c = "2" -> 2 [] c = "3" -> 3
      [] c = "4" -> 4 [] c = "5" -> 5 [] c = "6" -> 6 [] c = "7" -> 7
      [] c = "8" -> 8 [] OTHER -> 9

LowerChar(c) ==
    CASE c = "A" -> "a" [] c = "E" -> "e" [] c = "F" -> "f" [] c = "I" -> "i"
      [] c = "N" -> "n" [] c = "O" -> "o" [] c = "R" -> "r" [] c = "S" -> "s"
      [] c = "T" -> "t" [] c = "U" -> "u" [] c = "Y" -> "y"
      [] OTHER -> c

\* str.lower()
Lower(s) == [i \in 1..Len(s) |-> LowerChar(s[i])]

RECURSIVE LStrip(_)
LStrip(s) ==
    IF s # <<>> /\ Head(s) \in Whitespace THEN LStrip(Tail(s)) ELSE s

RECURSIVE RStrip(_)
RStrip(s) ==
    IF s # <<>> /\ s[Len(s)] \in Whitespace
    THEN RStrip(SubSeq(s, 1, Len(s) - 1))
    ELSE s

\* str.strip()
Strip(s) == RStrip(LStrip(s))

AllDigits(s) == \A i \in 1..Len(s) : s[i] \in Digits

RECURSIVE IntVal(_)
IntVal(s) ==
    IF s = <<>> THEN 0
    ELSE IntVal(SubSeq(s, 1, Len(s) - 1)) * 10 + DigitVal(s[Len(s)])

\* the fraction 0.d1d2... in units of 1/Scale (the first fractional digit)
FracVal(s) == IF s = <<>> THEN 0 ELSE DigitVal(s[1])

DotAt(s) == {i \in 1..Len(s) : s[i] = "."}

\* An outcome of float(): a value, or the exception it raises.
FOk(f) == [exc |-> "none", f |-> f]
FErr(e) == [exc |-> e, f |-> Fin(0)]

\* float(str) on an unsigned body: nan, inf, infinity, or digits[.digits]
\* (exponents and digit-group underscores are outside the alphabet).
FloatOfBody(body, sgn) ==
    LET low == Lower(body)
        dots == DotAt(body)
    IN  CASE low = <<"n", "a", "n">> -> FOk(NaN)
          [] low = <<"i", "n", "f">> -> FOk(Inf(sgn))
          [] low = <<"i", "n", "f", "i", "n", "i", "t", "y">> -> FOk(Inf(sgn))
          [] dots = {} ->
                IF body # <<>> /\ AllDigits(body)
                THEN FOk(Fin(sgn * IntVal(body) * Scale))
                ELSE FErr("ValueError")
          [] OTHER ->
                LET d == CHOOSE i \in dots : \A j \in dots : i <= j
                    ip == SubSeq(body, 1, d - 1)
                    fp == SubSeq(body, d + 1, Len(body))
                IN  IF AllDigits(ip) /\ AllDigits(fp) /\ Len(ip) + Len(fp) > 0
                    THEN FOk(Fin(sgn * (IntVal(ip) * Scale + FracVal(fp))))
                    ELSE FErr("ValueError")

FloatOfStripped(t) ==
    IF t = <<>> THEN FErr("ValueError")
    ELSE IF Head(t) = "-" THEN FloatOfBody(Tail(t), -1)
    ELSE IF Head(t) = "+" THEN FloatOfBody(Tail(t), 1)
    ELSE FloatOfBody(t, 1)

\* float(str)
FloatOfStr(s) == FloatOfStripped(Strip(s))

\* float(value) for any JSON value
FloatOf(value) ==
    CASE value.t = "bool" -> FOk(Fin(IF value.b THEN Scale ELSE 0))
      [] value.t = "int" ->
            IF value.n # 0 /\ value.e > FloatMax10Exp
            THEN FErr("OverflowError")
            ELSE FOk(Fin(value.n * Scale))
      [] value.t = "float" -> FOk(value.f)
      [] value.t = "str" -> FloatOfStr(value.s)
      [] OTHER -> FErr("TypeError")

----------------------------------------------------------------------------
(* Diagnostics: warn(message) appends to stderr *)

Diag(kind, ctx, val) == [kind |-> kind, ctx |-> ctx, val |-> val]

\* the two exits of parse_float, r being what float(value) did
ParseOutcome(r, value, context) ==
    IF r.exc \in {"TypeError", "ValueError"}
    THEN [exc |-> "none", absent |-> TRUE, f |-> Fin(0),
          diags |-> <<Diag("invalid_float", context, value)>>]
    ELSE [exc |-> r.exc, absent |-> FALSE, f |-> r.f, diags |-> <<>>]

\* parse_float: [exc, absent, f, diags]
parse_float(value, context) == ParseOutcome(FloatOf(value), value, context)

\* normalize_bool without value.strip()
normalize_bool_NoStrip(value) ==
    CASE value.t = "bool" -> value.b
      [] value.t = "int" -> value.n # 0
      [] value.t = "float" -> value.f # Fin(0)
      [] value.t = "str" ->
            Lower(value.s) \in
                {<<"t", "r", "u", "e">>, <<"1">>, <<"y", "e", "s">>, <<"y">>}
      [] OTHER -> FALSE

\* normalize_bool
normalize_bool(value) ==
    CASE value.t = "bool" -> value.b
      [] value.t = "int" -> value.n # 0
      [] value.t = "float" -> value.f # Fin(0)
      [] value.t = "str" ->
            Lower(Strip(value.s)) \in
                {<<"t", "r", "u", "e">>, <<"1">>, <<"y", "e", "s">>, <<"y">>}
      [] OTHER -> FALSE

----------------------------------------------------------------------------
(* list.sort(key=...) as CPython runs it on a list shorter than 64 items:  *)
(* the leading run is found (and reversed when strictly descending), the   *)
(* remaining items are placed by binary insertion.  Items are compared     *)
(* with < on their float keys only.                                        *)

Reverse(a) == [i \in 1..Len(a) |-> a[Len(a) + 1 - i]]

InsertAt(a, i, x) == SubSeq(a, 1, i - 1) \o <<x>> \o SubSeq(a, i, Len(a))

\* count_run: the last index of the run that starts at 1
RECURSIVE RunEnd(_, _, _)
RunEnd(a, i, desc) ==
    IF i > Len(a) THEN Len(a)
    ELSE IF FloatLt(a[i].time, a[i - 1].time) = desc THEN RunEnd(a, i + 1, desc)
    ELSE i - 1

\* binarysort's search: the insertion point of pivot in a[l..r-1]
RECURSIVE BinSearch(_, _, _, _)
BinSearch(a, pivot, l, r) ==
    IF l >= r THEN l
    ELSE LET p == l + ((r - l) \div 2)
         IN  IF FloatLt(pivot.time, a[p].time)
             THEN BinSearch(a, pivot, l, p)
             ELSE BinSearch(a, pivot, p + 1, r)

RECURSIVE BinarySort(_, _)
BinarySort(done, rest) ==
    IF rest = <<>> THEN done
    ELSE BinarySort(
             InsertAt(done, BinSearch(done, Head(rest), 1, Len(done) + 1), Head(rest)),
             Tail(rest))

\* the sort once the leading run a[1..n] is known
SortFrom(a, desc, n) ==
    BinarySort(IF desc THEN Reverse(SubSeq(a, 1, n)) ELSE SubSeq(a, 1, n),
               SubSeq(a, n + 1, Len(a)))

SortRun(a, desc) == SortFrom(a, desc, RunEnd(a, 3, desc))

\* entries.sort(key=lambda item: item[0])
ListSort(a) ==
    IF Len(a) < 2 THEN a ELSE SortRun(a, FloatLt(a[2].time, a[1].time))

----------------------------------------------------------------------------
(* convert_track *)

Keyframe(time, value) ==
    JDict(<<KV(<<"time">>, JFloat(time)),
            KV(<<"value">>, JList(<<value.items[1], value.items[2], value.items[3]>>))>>)

\* TrackKeep with the warning for a malformed value left out
TrackKeep_Silent(acc, pair, context, p) ==
    IF p.absent
    THEN [entries |-> acc.entries, diags |-> acc.diags \o p.diags]
    ELSE IF pair.v.t # "list" \/ Len(pair.v.items) < 3
    THEN acc
    ELSE [entries |-> Append(acc.entries, [time |-> p.f, entry |-> Keyframe(p.f, pair.v)]),
          diags |-> acc.diags]

\* The body of the loop over track.items(), p being what parse_float made
\* of the time key: the entries kept and the diagnostics emitted so far.
TrackKeep(acc, pair, context, p) ==
    IF p.absent
    THEN [entries |-> acc.entries, diags |-> acc.diags \o p.diags]
    ELSE IF pair.v.t # "list" \/ Len(pair.v.items) < 3
    THEN [entries |-> acc.entries,
          diags |-> Append(acc.diags, Diag("invalid_value", context, JStr(pair.k)))]
    ELSE [entries |-> Append(acc.entries, [time |-> p.f, entry |-> Keyframe(p.f, pair.v)]),
          diags |-> acc.diags]

\* A mapping's keys are strings, on which float() raises nothing but
\* ValueError: no exception leaves the loop.
TrackStep(acc, pair, context) ==
    TrackKeep(acc, pair, context, parse_float(JStr(pair.k), context \o <<" time">>))

RECURSIVE TrackLoop(_, _, _)
TrackLoop(acc, pairs, context) ==
    IF pairs = <<>> THEN acc
    ELSE TrackLoop(TrackStep(acc, Head(pairs), context), Tail(pairs), context)

\* return [entry for _, entry in entries]
EntriesOf(sorted) == JList([i \in 1..Len(sorted) |-> sorted[i].entry])

SortedTrack(r) == [out |-> EntriesOf(ListSort(r.entries)), diags |-> r.diags]

\* convert_track without the pass-through of a list
convert_track_NoList(track, context) ==
    IF track.t # "dict"
    THEN [out |-> JList(<<>>), diags |-> <<Diag("invalid_track", context, JNull)>>]
    ELSE SortedTrack(TrackLoop([entries |-> <<>>, diags |-> <<>>], track.pairs, context))

\* convert_track: [out, diags]
convert_track(track, context) ==
    IF track.t = "list" THEN [out |-> track, diags |-> <<>>]
    ELSE IF track.t # "dict"
    THEN [out |-> JList(<<>>), diags |-> <<Diag("invalid_track", context, JNull)>>]
    ELSE SortedTrack(TrackLoop([entries |-> <<>>, diags |-> <<>>], track.pairs, context))

----------------------------------------------------------------------------
(* convert_animation *)

Channels == <<"position", "rotation", "scale">>

Nothing == [out |-> JDict(<<>>), diags |-> <<>>]

\* bone_out[channel] = convert_track(...), r being what convert_track returned
ChannelStep(acc, channel, r) ==
    [out |-> Put(acc.out, <<channel>>, r.out), diags |-> acc.diags \o r.diags]

\* the loop over ("position", "rotation", "scale") for one bone
RECURSIVE ChannelLoop(_, _, _, _)
ChannelLoop(acc, bone, i, context) ==
    IF i > Len(Channels) THEN acc
    ELSE ChannelLoop(
             IF HasKey(bone, <<Channels[i]>>)
             THEN ChannelStep(acc, Channels[i],
                              convert_track(Get(bone, <<Channels[i]>>, JNull),
                                            context \o <<":", Channels[i]>>))
             ELSE acc,
             bone, i + 1, context)

\* BoneStep keeping a bone only when one of its tracks has an entry
BoneStep_NonEmptyTrack(acc, bone_name, b) ==
    [out |-> IF \E i \in 1..Len(b.out.pairs) : b.out.pairs[i].v.items # <<>>
             THEN Put(acc.out, bone_name, b.out)
             ELSE acc.out,
     diags |-> acc.diags \o b.diags]

\* if bone_out: converted["bones"][bone_name] = bone_out
BoneStep(acc, bone_name, b) ==
    [out |-> IF b.out.pairs # <<>> THEN Put(acc.out, bone_name, b.out) ELSE acc.out,
     diags |-> acc.diags \o b.diags]

\* the loop over bones.items()
RECURSIVE BoneLoop(_, _, _)
BoneLoop(acc, pairs, context) ==
    IF pairs = <<>> THEN acc
    ELSE BoneLoop(
             IF Head(pairs).v.t = "dict"
             THEN BoneStep(acc, Head(pairs).k,
                           ChannelLoop(Nothing, Head(pairs).v, 1,
                                       context \o <<":">> \o Head(pairs).k))
             ELSE acc,
             Tail(pairs), context)

\* RawDuration with animation_length read before duration
RawDuration_LengthFirst(anim) ==
    Get(anim, <<"animation_length">>, Get(anim, <<"duration">>, JFloat(Fin(0))))

\* the raw duration of a source animation
RawDuration(anim) ==
    Get(anim, <<"duration">>, Get(anim, <<"animation_length">>, JFloat(Fin(0))))

\* bones = anim.get("bones", {}) and the loop over it
BonesOf(bones, context) ==
    IF bones.t = "dict" THEN BoneLoop(Nothing, bones.pairs, context) ELSE Nothing

\* One converted animation, p being what parse_float made of the duration
\* and b the converted bones: [exc, out, diags].  An exception of
\* parse_float leaves before the bones are read.
Converted(anim, p, b) ==
    IF p.exc # "none"
    THEN [exc |-> p.exc, out |-> JNull, diags |-> p.diags]
    ELSE [exc |-> "none",
          out |-> JDict(<<KV(<<"duration">>, JFloat(IF p.absent THEN Fin(0) ELSE p.f)),
                          KV(<<"loop">>,
                             JBool(normalize_bool(Get(anim, <<"loop">>, JBool(FALSE))))),
                          KV(<<"bones">>, b.out)>>),
          diags |-> p.diags \o b.diags]

\* the body of the loop over animations.items() for a mapping anim
ConvertOne(anim, context) ==
    Converted(anim,
              parse_float(RawDuration(anim), context \o <<" duration">>),
              BonesOf(Get(anim, <<"bones">>, JDict(<<>>)), context))

\* out["animations"][name] = converted, unless the body raised
AnimStep(acc, name, r) ==
    [exc |-> r.exc,
     out |-> IF r.exc = "none" THEN Put(acc.out, name, r.out) ELSE acc.out,
     diags |-> acc.diags \o r.diags]

\* the loop over animations.items(); it stops where an exception is raised
RECURSIVE AnimLoop(_, _, _)
AnimLoop(acc, pairs, source) ==
    IF pairs = <<>> \/ acc.exc # "none" THEN acc
    ELSE AnimLoop(
             IF Head(pairs).v.t = "dict"
             THEN AnimStep(acc, Head(pairs).k,
                           ConvertOne(Head(pairs).v, source \o <<":">> \o Head(pairs).k))
             ELSE acc,
             Tail(pairs), source)

Returned(r) ==
    [exc |-> r.exc, out |-> JDict(<<KV(<<"animations">>, r.out)>>), diags |-> r.diags]

AnimationsOf(animations, source) ==
    IF animations.t # "dict"
    THEN [exc |-> "none",
          out |-> JDict(<<KV(<<"animations">>, JDict(<<>>))>>),
          diags |-> <<Diag("no_animations", source, JNull)>>]
    ELSE Returned(AnimLoop([exc |-> "none", out |-> JDict(<<>>), diags |-> <<>>],
                           animations.pairs, source))

\* convert_animation on a mapping: [exc, out, diags]; out is the returned
\* document when exc = "none".
convert_animation(data, source) ==
    AnimationsOf(Get(data, <<"animations">>, JDict(<<>>)), source)

----------------
(* Inputs *)

MaxEntries == 3
MaxBones == 2

\* the sequences of at most n distinct elements of S
Arrangements(S, n) ==
    UNION {{q \in [1..k -> S] : \A i, j \in 1..k : q[i] = q[j] => i = j} : k \in 0..n}

Vec(a, b, c) == JList(<<JInt(a), JInt(b), JInt(c)>>)
KeyframeAt(v, a) == JDict(<<KV(<<"time">>, JFloat(Fin(v))), KV(<<"value">>, Vec(a, a, a))>>)

\* entries of a mapping-form track: time key and value
TrackEntries ==
    { KV(<<"1">>, Vec(1, 0, 0)),
      KV(<<"0">>, Vec(0, 0, 0)),
      KV(<<"n", "a", "n">>, Vec(7, 7, 7)),
      KV(<<"x">>, Vec(5, 5, 5)),
      KV(<<"2">>, JList(<<JInt(1), JInt(2)>>)) }

MoreTrackEntries ==
    { KV(<<"1", ".", "0">>, JList(<<JInt(1), JInt(1), JInt(1), JInt(9)>>)),
      KV(<<" ", "0", ".", "5", " ">>, Vec(5, 0, 0)),
      KV(<<"-", "1">>, Vec(-1, 0, 0)),
      KV(<<"i", "n", "f">>, Vec(8, 8, 8)),
      KV(<<"3">>, JStr(<<"a", "b", "c">>)),
      KV(<<>>, Vec(6, 6, 6)) }

MapTracks(E) == {JDict(q) : q \in Arrangements(E, MaxEntries)}

ListTracks ==
    { JList(<<>>),
      JList(<<KeyframeAt(0, 0), KeyframeAt(10, 1)>>),
      JList(<<KeyframeAt(10, 1), KeyframeAt(0, 0)>>),
      JList(<<JInt(1), JStr(<<"a">>)>>) }

InvalidTracks == {JStr(<<"0">>), JNull, JInt(3)}

\* the tracks convert_track is applied to on its own
TrackInputs == MapTracks(TrackEntries \cup MoreTrackEntries) \cup ListTracks \cup InvalidTracks

TrackContext == <<"f", ":", "run", ":", "hip", ":", "position">>

----------------------------------------------------------------------------
(* convert_track applied to one track *)

\* main is not running
MainIdle ==
    /\ fs = <<>>
    /\ fs0 = <<>>
    /\ args = <<>>
    /\ todo = {}
    /\ found = {}
    /\ calls = {}
    /\ last = <<>>
    /\ converted_any = FALSE
    /\ status = "idle"
    /\ exit_code = 0

InitTrack ==
    /\ pc = "start"
    /\ input \in TrackInputs
    /\ result = JNull
    /\ diags = <<>>
    /\ exc = "none"
    /\ round = 0
    /\ MainIdle

TrackDone(r) ==
    /\ result' = r.out
    /\ diags' = r.diags
    /\ pc' = "done"

ConvertTrack ==
    /\ pc = "start"
    /\ TrackDone(convert_track(input, TrackContext))
    /\ UNCHANGED <<input, exc, round>>
    /\ UNCHANGED mainVars

NextTrack == ConvertTrack

SpecTrack == InitTrack /\ [][NextTrack]_vars

----------------------------------------------------------------------------
(* Source documents given to convert_animation *)

Source == <<"walk.animation.json">>

BoneNames == <<<<"hip">>, <<"knee">>, <<"foot">>, <<"toe">>>>

DocTracks == MapTracks(TrackEntries) \cup ListTracks \cup InvalidTracks

SortedList == JList(<<KeyframeAt(0, 0), KeyframeAt(10, 1)>>)
UnsortedList == JList(<<KeyframeAt(10, 1), KeyframeAt(0, 0)>>)

\* the first bone of an animation
BoneInputs ==
    {JDict(<<KV(<<"position">>, t)>>) : t \in DocTracks}
    \cup { JDict(<<>>),
           JDict(<<KV(<<"pivot">>, SortedList)>>),
           JDict(<<KV(<<"scale">>, SortedList), KV(<<"position">>, UnsortedList)>>),
           JDict(<<KV(<<"rotation">>, JList(<<>>)), KV(<<"scale">>, JDict(<<>>))>>),
           JDict(<<KV(<<"scale">>, JNull),
                   KV(<<"rotation">>, JDict(<<KV(<<"x">>, Vec(1, 1, 1))>>)),
                   KV(<<"position">>, JDict(<<KV(<<"1">>, Vec(1, 1, 1)),
                                              KV(<<"0">>, Vec(0, 0, 0))>>))>>),
           JDict(<<KV(<<"rotation">>, SortedList), KV(<<"pivot">>, JInt(1))>>),
           JStr(<<"hip">>), JNull, JList(<<SortedList>>) }

\* the bones after the first
MoreBoneInputs ==
    { JDict(<<KV(<<"rotation">>, UnsortedList)>>),
      JDict(<<KV(<<"scale">>, JDict(<<KV(<<"x">>, Vec(1, 1, 1))>>))>>),
      JDict(<<>>),
      JInt(0) }

Named(names, values) == [i \in 1..Len(values) |-> KV(names[i], values[i])]

BonesInputs ==
    {JDict(<<>>), JStr(<<"none">>), JList(<<>>)}
    \cup {JDict(Named(BoneNames, <<b>> \o q)) :
            b \in BoneInputs,
            q \in UNION {[1..k -> MoreBoneInputs] : k \in 0..(MaxBones - 1)}}

DurationInputs ==
    { JFloat(Fin(15)), JFloat(NaN), JInt(2), JInt(0), JBig(1, 400), JBig(0, 400),
      JBool(TRUE), JNull, JList(<<JInt(1)>>), JDict(<<>>),
      JStr(<<"1", ".", "5">>), JStr(<<" ", "2", " ">>), JStr(<<"x">>), JStr(<<>>),
      JStr(<<"N", "a", "N">>), JStr(<<"-", ".", "5">>), JStr(<<"1", ".", "2", ".">>) }

LengthInputs == {JInt(3), JStr(<<"4">>), JStr(<<"l", "o", "n", "g">>), JNull}

LoopInputs ==
    { JBool(TRUE), JBool(FALSE), JInt(0), JInt(2), JInt(-1), JBig(1, 400),
      JFloat(Fin(0)), JFloat(Fin(5)), JFloat(NaN), JNull,
      JList(<<JBool(TRUE)>>), JDict(<<KV(<<"loop">>, JBool(TRUE))>>),
      JStr(<<"y", "e", "s">>), JStr(<<"Y", "E", "S">>), JStr(<<" ", "Y", "e", "s", " ">>),
      JStr(<<"y">>), JStr(<<"Y", " ">>), JStr(<<"1">>), JStr(<<"t", "r", "u", "e">>),
      JStr(<<"T", "r", "u", "e">>), JStr(<<"N", "O">>), JStr(<<"n", "o">>),
      JStr(<<"0">>), JStr(<<"2">>), JStr(<<"o", "n">>), JStr(<<>>), JStr(<<" ">>),
      JStr(<<"y", "e", "s", "!">>), JStr(<<"y", " ", "e", "s">>), JStr(<<"1", ".", "0">>),
      JStr(<<"f", "a", "l", "s", "e">>), JStr(<<"t">>) }

\* a field that may be absent: the pairs it contributes
Field(key, values) == {<<>>} \cup {<<KV(key, v)>> : v \in values}

\* animations whose scalar fields vary
ScalarAnims ==
    {JDict(d \o l \o <<KV(<<"loop">>, JBool(TRUE))>>) :
        d \in Field(<<"duration">>, DurationInputs),
        l \in Field(<<"animation_length">>, LengthInputs)}
    \cup {JDict(l \o d) :
            d \in Field(<<"duration">>, {JStr(<<"x">>), JInt(2)}),
            l \in Field(<<"animation_length">>, {JInt(3)})}
    \cup {JDict(<<KV(<<"duration">>, JFloat(Fin(15)))>> \o l \o <<KV(<<"bones">>, JDict(<<>>))>>) :
            l \in Field(<<"loop">>, LoopInputs)}

\* animations whose bones vary
BoneAnims ==
    {JDict(<<KV(<<"duration">>, JFloat(Fin(15))), KV(<<"loop">>, JBool(FALSE)),
             KV(<<"bones">>, b)>>) : b \in BonesInputs}

\* an entry of animations that is not a mapping
NonAnims == {JNull, JStr(<<"run">>), JList(<<>>), JInt(1)}

\* the second entry of animations
MoreAnims ==
    { JDict(<<KV(<<"duration">>, JFloat(NaN)), KV(<<"loop">>, JBool(TRUE)),
              KV(<<"bones">>, JDict(<<>>))>>),
      JInt(7),
      JDict(<<KV(<<"animation_length">>, JBig(5, 400)),
              KV(<<"bones">>, JDict(<<KV(<<"hip">>, JDict(<<KV(<<"scale">>, JInt(1))>>))>>))>>) }

AnimationsInputs ==
    {JDict(<<>>)}
    \cup {JDict(<<KV(<<"run">>, a)>> \o m) :
            a \in ScalarAnims \cup BoneAnims \cup NonAnims,
            m \in Field(<<"idle">>, MoreAnims)}

DocInputs ==
    { JDict(<<>>),
      JDict(<<KV(<<"format_version">>, JInt(1))>>),
      JDict(<<KV(<<"animations">>, JList(<<>>))>>),
      JDict(<<KV(<<"animations">>, JNull)>>),
      JDict(<<KV(<<"animations">>, JStr(<<"run">>))>>) }
    \cup {JDict(<<KV(<<"animations">>, a)>>) : a \in AnimationsInputs}

----------------------------------------------------------------------------
(* convert_animation applied to a document, and to its own output *)

Init ==
    /\ pc = "start"
    /\ input \in DocInputs
    /\ result = JNull
    /\ diags = <<>>
    /\ exc = "none"
    /\ round = 0
    /\ MainIdle

\* convert_animation returns r.out, or r.exc leaves it
AnimationDone(r) ==
    /\ result' = (IF r.exc = "none" THEN r.out ELSE JNull)
    /\ diags' = r.diags
    /\ exc' = r.exc
    /\ pc' = (IF r.exc = "none" THEN "done" ELSE "raised")

ConvertAnimation ==
    /\ pc = "start"
    /\ AnimationDone(convert_animation(input, Source))
    /\ UNCHANGED <<input, round>>
    /\ UNCHANGED mainVars

\* the returned document is given to convert_animation again
Reconvert ==
    /\ pc = "done"
    /\ round = 0
    /\ input' = result
    /\ round' = 1
    /\ pc' = "start"
    /\ result' = JNull
    /\ diags' = <<>>
    /\ UNCHANGED exc
    /\ UNCHANGED mainVars

Next == ConvertAnimation \/ Reconvert

Spec == Init /\ [][Next]_vars

----------------------------------------------------------------------------
(* Files and paths.  A path is a directory and a file name, each a        *)
(* sequence of parts; a part of a name after the first is a suffix taken  *)
(* as a whole, so that name.endswith(".animation.json") reads the last    *)
(* part.  The directory itself is the path with the empty name.           *)

MaxFiles == 2

StemNames == <<"a", "b", "c", "d">>
Stems == {StemNames[i] : i \in 1..MaxFiles}

P(dir, name) == [dir |-> dir, name |-> name]

InputDir == P(<<"in">>, <<>>)
OutputDir == P(<<"out">>, <<>>)
OutputFile == P(<<"out">>, <<"result", ".json">>)
NoOutput == P(<<>>, <<>>)

\* path / name
Under(path, name) == P(path.dir \o path.name, name)

Last(q) == q[Len(q)]

\* default_output_name
default_output_name(path, suffix) ==
    IF path.name # <<>> /\ Last(path.name) = ".animation.json"
    THEN P(path.dir, Append(SubSeq(path.name, 1, Len(path.name) - 1), suffix))
    ELSE P(path.dir, Append(path.name, suffix))

\* a file: absent, or there with what read_text and json.loads make of it
File(readable, valid, data) ==
    [exists |-> TRUE, readable |-> readable, valid |-> valid, data |-> data]
Absent == [exists |-> FALSE, readable |-> FALSE, valid |-> FALSE, data |-> JNull]
Written(data) == File(TRUE, TRUE, data)

Exists(fsys, path) == path \in DOMAIN fsys /\ fsys[path].exists

\* iter_input_files: under a directory, the files named *.animation.json
iter_input_files(fsys, path) ==
    IF path = InputDir
    THEN {q \in DOMAIN fsys :
            /\ q.dir = path.dir \o path.name
            /\ fsys[q].exists
            /\ q.name # <<>>
            /\ Last(q.name) = ".animation.json"}
    ELSE {path}

\* Path.suffix is not empty
HasSuffix(path) == Len(path.name) >= 2

\* the out_path main computes for in_path (lines 145-151); under a
\* directory the files lie flat, so rel.parent is "."
out_path(fsys, a, in_path) ==
    IF a.output # NoOutput /\ HasSuffix(a.output) /\ Exists(fsys, a.input)
    THEN a.output
    ELSE IF a.output # NoOutput
    THEN Under(a.output, default_output_name(in_path, a.suffix).name)
    ELSE default_output_name(in_path, a.suffix)

\* what convert_file does once the text of in_path is parsed to data
ConvertParsed(fsys, in_path, out, data, r) ==
    IF data.t # "dict"
    THEN [exc |-> "AttributeError", ret |-> FALSE, fs |-> fsys, diags |-> <<>>]
    ELSE IF r.exc # "none"
    THEN [exc |-> r.exc, ret |-> FALSE, fs |-> fsys, diags |-> r.diags]
    ELSE [exc |-> "none", ret |-> TRUE,
          fs |-> [q \in DOMAIN fsys |-> IF q = out THEN Written(r.out) ELSE fsys[q]],
          diags |-> r.diags]

\* convert_file reading and parsing the input before it looks for the output
convert_file_ReadFirst(fsys, in_path, out, overwrite) ==
    IF ~Exists(fsys, in_path) \/ ~fsys[in_path].readable
    THEN [exc |-> "OSError", ret |-> FALSE, fs |-> fsys, diags |-> <<>>]
    ELSE IF ~fsys[in_path].valid
    THEN [exc |-> "none", ret |-> FALSE, fs |-> fsys,
          diags |-> <<Diag("parse_failed", in_path.name, JNull)>>]
    ELSE IF Exists(fsys, out) /\ ~overwrite
    THEN [exc |-> "none", ret |-> FALSE, fs |-> fsys,
          diags |-> <<Diag("output_exists", in_path.name, JStr(out.name))>>]
    ELSE ConvertParsed(fsys, in_path, out, fsys[in_path].data,
                       convert_animation(fsys[in_path].data, in_path.name))

\* convert_file: [exc, ret, fs, diags]
convert_file(fsys, in_path, out, overwrite) ==
    IF Exists(fsys, out) /\ ~overwrite
    THEN [exc |-> "none", ret |-> FALSE, fs |-> fsys,
          diags |-> <<Diag("output_exists", in_path.name, JStr(out.name))>>]
    ELSE IF ~Exists(fsys, in_path) \/ ~fsys[in_path].readable
    THEN [exc |-> "OSError", ret |-> FALSE, fs |-> fsys, diags |-> <<>>]
    ELSE IF ~fsys[in_path].valid
    THEN [exc |-> "none", ret |-> FALSE, fs |-> fsys,
          diags |-> <<Diag("parse_failed", in_path.name, JNull)>>]
    ELSE ConvertParsed(fsys, in_path, out, fsys[in_path].data,
                       convert_animation(fsys[in_path].data, in_path.name))

----------------------------------------------------------------------------
(* main *)

GoodDoc ==
    JDict(<<KV(<<"animations">>,
               JDict(<<KV(<<"run">>,
                          JDict(<<KV(<<"duration">>, JStr(<<"1", ".", "5">>)),
                                  KV(<<"loop">>, JStr(<<"y", "e", "s">>)),
                                  KV(<<"bones">>,
                                     JDict(<<KV(<<"hip">>,
                                                JDict(<<KV(<<"position">>,
                                                           JDict(<<KV(<<"1">>, Vec(0, 1, 0)),
                                                                   KV(<<"0">>, Vec(0, 0, 0))>>))>>))>>))>>))>>))>>)

HugeDurationDoc ==
    JDict(<<KV(<<"animations">>,
               JDict(<<KV(<<"run">>, JDict(<<KV(<<"duration">>, JBig(1, 400))>>))>>))>>)

OldOutput == Written(JDict(<<KV(<<"animations">>, JDict(<<>>))>>))

\* what an input file may hold
InputFiles ==
    { File(FALSE, FALSE, JNull),              \* cannot be read
      File(TRUE, FALSE, JNull),               \* text that is not JSON
      File(TRUE, TRUE, JList(<<>>)),          \* JSON, not a mapping
      File(TRUE, TRUE, HugeDurationDoc),
      File(TRUE, TRUE, GoodDoc) }

Suffixes == {".rigel.json", ".animation.json"}

\* the paths main may read or write
Paths ==
    {Under(d, <<s, x>>) : d \in {InputDir, OutputDir}, s \in Stems, x \in Suffixes}
    \cup { Under(InputDir, <<"clip", ".json">>),
           Under(InputDir, <<"clip", ".json", ".rigel.json">>),
           Under(OutputDir, <<"clip", ".json", ".rigel.json">>),
           OutputFile,
           Under(OutputFile, <<"clip", ".json", ".rigel.json">>),
           Under(OutputFile, <<"a", ".rigel.json">>) }

InputNames == {<<s, ".animation.json">> : s \in Stems}

\* the command lines: a directory, or one file, as the input
ArgsInputs ==
    {[input |-> InputDir, output |-> o, suffix |-> x, overwrite |-> w] :
        o \in {NoOutput, OutputDir}, x \in Suffixes, w \in BOOLEAN}
    \cup {[input |-> i, output |-> o, suffix |-> ".rigel.json", overwrite |-> w] :
            i \in {Under(InputDir, <<"a", ".animation.json">>),
                    Under(InputDir, <<"clip", ".json">>)},
            o \in {NoOutput, OutputDir, OutputFile}, w \in BOOLEAN}

\* the paths main reads its input from
InputPaths(a) ==
    IF a.input = InputDir THEN {Under(a.input, n) : n \in InputNames} ELSE {a.input}

\* the files with the inputs ins, and old outputs at the paths olds
Files(ins, olds) ==
    [q \in Paths |->
        IF q \in DOMAIN ins THEN ins[q]
        ELSE IF q \in olds THEN OldOutput
        ELSE Absent]

\* where main will write, given the inputs
OutPaths(a, ins) ==
    {out_path(Files(ins, {}), a, i) : i \in iter_input_files(Files(ins, {}), a.input)}
        \ DOMAIN ins

\* The files main may find: its inputs, each absent or with some content,
\* and a file already there at any of the paths it will write to.
FilesFor(a) ==
    UNION {{Files(ins, olds) : olds \in SUBSET OutPaths(a, ins)} :
             ins \in [InputPaths(a) -> InputFiles \cup {Absent}]}

InitMain ==
    /\ args \in ArgsInputs
    /\ fs \in FilesFor(args)
    /\ fs0 = fs
    /\ found = iter_input_files(fs, args.input)
    /\ todo = found
    /\ calls = {}
    /\ last = [in_path |-> NoOutput, out |-> NoOutput, existed |-> FALSE,
               ret |-> FALSE, exc |-> "none", wrote |-> FALSE, warned |-> FALSE]
    /\ converted_any = FALSE
    /\ status = "running"
    /\ exit_code = 0
    /\ diags = <<>>
    /\ exc = "none"
    /\ pc = "main"
    /\ input = JNull
    /\ result = JNull
    /\ round = 0

\* one pass of the loop of main, r being what convert_file did
LoopBody(in_path, out, r) ==
    /\ fs' = r.fs
    /\ diags' = diags \o r.diags
    /\ exc' = r.exc
    /\ calls' = calls \cup {in_path}
    /\ todo' = todo \ {in_path}
    /\ last' = [in_path |-> in_path, out |-> out, existed |-> Exists(fs, out),
                ret |-> r.ret, exc |-> r.exc, wrote |-> r.fs # fs,
                warned |-> r.diags # <<>>]
    /\ converted_any' = (converted_any \/ r.ret)
    /\ status' = (IF r.exc = "none" THEN "running" ELSE "aborted")

\* for in_path in iter_input_files(input_path): ... convert_file(...)
MainLoop ==
    /\ status = "running"
    /\ \E in_path \in todo :
          LoopBody(in_path, out_path(fs, args, in_path),
                   convert_file(fs, in_path, out_path(fs, args, in_path), args.overwrite))
    /\ UNCHANGED <<pc, input, result, round, fs0, args, found, exit_code>>

\* return 0 if converted_any else 1
MainReturn ==
    /\ status = "running"
    /\ todo = {}
    /\ status' = "returned"
    /\ exit_code' = (IF converted_any THEN 0 ELSE 1)
    /\ UNCHANGED <<pc, input, result, diags, exc, round>>
    /\ UNCHANGED <<fs, fs0, args, todo, found, calls, last, converted_any>>

NextMain == MainLoop \/ MainReturn

SpecMain == InitMain /\ [][NextMain]_vars

----------------------------------------------------------------------------
(* Reading documents, for the properties below *)

KeysOf(d) == {d.pairs[i].k : i \in 1..Len(d.pairs)}
PairsOf(v) == IF v.t = "dict" THEN {v.pairs[i] : i \in 1..Len(v.pairs)} ELSE {}

\* the entries of a document's animations mapping
AnimsOf(doc) == PairsOf(Get(doc, <<"animations">>, JDict(<<>>)))
\* the source animations that are mappings
SourceAnims == {a \in AnimsOf(input) : a.v.t = "dict"}
\* the animation stored in the output under a name
OutAnim(name) == Get(Get(result, <<"animations">>, JDict(<<>>)), name, JNull)
\* the entries of an animation's bones mapping
BonesIn(anim) == PairsOf(Get(anim, <<"bones">>, JDict(<<>>)))
ChannelKeys == {<<Channels[i]>> : i \in 1..Len(Channels)}
\* the tracks stored under a bone's channel keys
TracksIn(bone) == {c \in PairsOf(bone) : c.k \in ChannelKeys}

IsKeyframe(e) == e.t = "dict" /\ Get(e, <<"time">>, JNull).t = "float"
TimeOf(e) == Get(e, <<"time">>, JNull).f

\* a list of keyframes is in non-decreasing order of time
NonDecreasing(items) ==
    \A i \in 1..(Len(items) - 1) :
        (IsKeyframe(items[i]) /\ IsKeyframe(items[i + 1]))
            => FloatLe(TimeOf(items[i]), TimeOf(items[i + 1]))

----------------------------------------------------------------------------
(* C1: for every source document whose top level is a mapping,            *)
(* convert_animation returns a document and raises no exception, whatever *)
(* value the float coercion of parse_float is given.                      *)
C1_NeverRaises ==
    pc \in {"done", "raised"} => (exc = "none" /\ result.t = "dict")

(* C2: in every returned document, every track stored under a bone's      *)
(* position, rotation or scale key is sorted non-decreasing by time,      *)
(* whether the source track was a mapping or a list.                      *)
C2_TracksSorted ==
    pc = "done" =>
        \A a \in AnimsOf(result) : \A b \in BonesIn(a.v) : \A c \in TracksIn(b.v) :
            c.v.t = "list" /\ NonDecreasing(c.v.items)

----------------------------------------------------------------------------
(* Bones kept and bones dropped *)

\* the source bones of an animation that are mappings with a channel key
BonesWithChannel(anim) ==
    {b \in BonesIn(anim) : b.v.t = "dict" /\ TracksIn(b.v) # {}}

\* every channel of the bone that is present normalizes to an empty track
AllTracksEmpty(bone, context) ==
    \A c \in TracksIn(bone) : convert_track(c.v, context).out.items = <<>>

(* C3 as stated: a bone name appears under an animation's bones only if   *)
(* one of its converted channels is a non-empty track, and a source bone  *)
(* all of whose present channels normalize to an empty track is absent.   *)
C3_OnlyNonEmptyBones ==
    pc = "done" =>
        /\ \A a \in AnimsOf(result) : \A b \in BonesIn(a.v) :
              \E c \in TracksIn(b.v) : c.v.items # <<>>
        /\ \A a \in SourceAnims : \A b \in BonesIn(a.v) :
              (b.v.t = "dict" /\ AllTracksEmpty(b.v, <<>>))
                  => b.k \notin KeysOf(Get(OutAnim(a.k), <<"bones">>, JDict(<<>>)))

(* C3 amended: a bone name appears under an animation's bones exactly     *)
(* when the source bone is a mapping that holds at least one of the keys  *)
(* position, rotation, scale; its converted tracks may all be empty.      *)
C3_BonesWithChannelKept ==
    pc = "done" =>
        \A a \in SourceAnims :
            KeysOf(Get(OutAnim(a.k), <<"bones">>, JDict(<<>>)))
                = {b.k : b \in BonesWithChannel(a.v)}

\* a bone is in the output with nothing but empty tracks, and a source bone
\* without a channel key is not
C3_Witness ==
    /\ pc = "done"
    /\ \E a \in AnimsOf(result) : \E b \in BonesIn(a.v) :
          \A c \in TracksIn(b.v) : c.v.items = <<>>
    /\ \E a \in SourceAnims : \E b \in BonesIn(a.v) :
          b.v.t = "dict" /\ TracksIn(b.v) = {}

----------------------------------------------------------------------------
(* Diagnostics for what is dropped *)

AnimContext(name) == Source \o <<":">> \o name
BoneContext(name, bone_name) == AnimContext(name) \o <<":">> \o bone_name
ChannelContext(name, bone_name, channel) == BoneContext(name, bone_name) \o <<":">> \o channel

Emitted(d) == \E i \in 1..Len(diags) : diags[i] = d

IsPrefix(p, q) == Len(p) <= Len(q) /\ SubSeq(q, 1, Len(p)) = p
\* some diagnostic names this place of the source
Mentioned(context) == \E i \in 1..Len(diags) : IsPrefix(context, diags[i].ctx)

\* the tracks the converter reads: animation name, bone name, channel, track
TracksOfBone(name, b) == {<<name, b.k, c.k, c.v>> : c \in TracksIn(b.v)}
TracksOfAnim(a) ==
    UNION {TracksOfBone(a.k, b) : b \in {x \in BonesIn(a.v) : x.v.t = "dict"}}
SourceTracks == UNION {TracksOfAnim(a) : a \in SourceAnims}

BadTime(e) == FloatOfStr(e.k).exc # "none"
BadValue(e) == e.v.t # "list" \/ Len(e.v.items) < 3

\* every dropped track entry and every dropped track has its diagnostic
TrackDropsReported ==
    \A t \in SourceTracks :
        LET context == ChannelContext(t[1], t[2], t[3])
        IN  /\ t[4].t \notin {"list", "dict"} => Emitted(Diag("invalid_track", context, JNull))
            /\ \A e \in PairsOf(t[4]) :
                  /\ BadTime(e) =>
                        Emitted(Diag("invalid_float", context \o <<" time">>, JStr(e.k)))
                  /\ (~BadTime(e) /\ BadValue(e)) =>
                        Emitted(Diag("invalid_value", context, JStr(e.k)))

\* the entries of bones, and of animations, that are not mappings
DroppedBones ==
    UNION {{BoneContext(a.k, b.k) : b \in {x \in BonesIn(a.v) : x.v.t # "dict"}} :
             a \in SourceAnims}
DroppedAnims == {AnimContext(a.k) : a \in {x \in AnimsOf(input) : x.v.t # "dict"}}

(* C4 as stated: whenever convert_animation drops a unit of the source, a *)
(* diagnostic is emitted for that unit: a track entry with an unparseable *)
(* time, a track entry with a malformed value, a track that is neither a  *)
(* list nor a mapping, a bones entry that is not a mapping, an animations *)
(* entry that is not a mapping.                                           *)
C4_EveryDropReported ==
    pc = "done" =>
        /\ TrackDropsReported
        /\ \A context \in DroppedBones \cup DroppedAnims : Mentioned(context)

(* C4 amended: a diagnostic is emitted for every dropped track entry with *)
(* an unparseable time, every dropped track entry with a malformed value  *)
(* and every track that is neither a list nor a mapping; a bones entry or *)
(* an animations entry that is not a mapping is dropped with no           *)
(* diagnostic.                                                            *)
C4_TrackDropsReported ==
    pc = "done" =>
        /\ TrackDropsReported
        /\ \A context \in DroppedBones \cup DroppedAnims : ~Mentioned(context)

\* a track entry is dropped for its value, and a bone that is not a mapping
\* is dropped too
C4_Witness ==
    /\ pc = "done"
    /\ \E i \in 1..Len(diags) : diags[i].kind = "invalid_value"
    /\ \E i \in 1..Len(diags) : diags[i].kind = "invalid_float"
    /\ DroppedBones # {}

----------------------------------------------------------------------------
(* Documents in Target shape *)

\* equality of documents: mappings compare by key, whatever the order
RECURSIVE DocEq(_, _)
DocEq(x, y) ==
    IF x.t # y.t THEN FALSE
    ELSE CASE x.t = "dict" ->
                /\ Len(x.pairs) = Len(y.pairs)
                /\ KeysOf(x) = KeysOf(y)
                /\ \A k \in KeysOf(x) : DocEq(Get(x, k, JNull), Get(y, k, JNull))
           [] x.t = "list" ->
                /\ Len(x.items) = Len(y.items)
                /\ \A i \in 1..Len(x.items) : DocEq(x.items[i], y.items[i])
           [] OTHER -> x = y

TargetBone(bone) ==
    /\ bone.t = "dict"
    /\ KeysOf(bone) # {}
    /\ KeysOf(bone) \subseteq ChannelKeys
    /\ \A c \in PairsOf(bone) : c.v.t = "list"

TargetAnimation(anim) ==
    /\ anim.t = "dict"
    /\ KeysOf(anim) = {<<"duration">>, <<"loop">>, <<"bones">>}
    /\ Get(anim, <<"duration">>, JNull).t = "float"
    /\ Get(anim, <<"loop">>, JNull).t = "bool"
    /\ Get(anim, <<"bones">>, JNull).t = "dict"
    /\ \A b \in BonesIn(anim) : TargetBone(b.v)

TargetShaped(doc) ==
    /\ doc.t = "dict"
    /\ KeysOf(doc) = {<<"animations">>}
    /\ Get(doc, <<"animations">>, JNull).t = "dict"
    /\ \A a \in AnimsOf(doc) : TargetAnimation(a.v)

(* C6: for every document already in Target shape convert_animation       *)
(* returns a document equal to its input; in particular convert_animation *)
(* applied to its own output returns that output.                         *)
C6_TargetShapeFixed ==
    pc = "done" =>
        /\ TargetShaped(input) => DocEq(result, input)
        /\ round = 1 => DocEq(result, input)

\* a Target-shaped source with a bone whose channels are out of the
\* canonical order, one of them an unsorted list, has been converted
C6_Witness ==
    /\ pc = "done"
    /\ round = 0
    /\ TargetShaped(input)
    /\ \E a \in AnimsOf(input) : \E b \in BonesIn(a.v) :
          /\ b.v.pairs[1].k = <<"scale">>
          /\ \E c \in TracksIn(b.v) : ~NonDecreasing(c.v.items)

\* the output of a conversion has been converted again
C6_WitnessAgain ==
    /\ pc = "done"
    /\ round = 1
    /\ \E a \in AnimsOf(input) : \E b \in BonesIn(a.v) :
          \E c \in TracksIn(b.v) : c.v.items # <<>>

----------------------------------------------------------------------------
(* Duration and loop *)

\* the float parse of a raw value, 0.0 when it fails
ParsedOrZero(raw) == IF FloatOf(raw).exc = "none" THEN FloatOf(raw).f ELSE Fin(0)

ExpectedDuration(anim) ==
    IF <<"duration">> \in KeysOf(anim)
    THEN ParsedOrZero(Get(anim, <<"duration">>, JNull))
    ELSE IF <<"animation_length">> \in KeysOf(anim)
    THEN ParsedOrZero(Get(anim, <<"animation_length">>, JNull))
    ELSE Fin(0)

(* C9: every animation in the output has a float duration: the float      *)
(* parse of the source's duration key if present, otherwise of its        *)
(* animation_length key if present, otherwise 0.0, and 0.0 when the parse *)
(* fails, even when a valid animation_length is also present.             *)
C9_Duration ==
    pc = "done" =>
        /\ \A a \in AnimsOf(result) : Get(a.v, <<"duration">>, JNull).t = "float"
        /\ \A a \in SourceAnims :
              Get(OutAnim(a.k), <<"duration">>, JNull) = JFloat(ExpectedDuration(a.v))

\* an unparseable duration beside a valid animation_length gave 0.0
C9_Witness ==
    /\ pc = "done"
    /\ \E a \in SourceAnims :
          /\ Get(a.v, <<"duration">>, JNull) = JStr(<<"x">>)
          /\ Get(a.v, <<"animation_length">>, JNull) = JInt(3)
          /\ Get(OutAnim(a.k), <<"duration">>, JNull) = JFloat(Fin(0))

TrueWords == {<<"t", "r", "u", "e">>, <<"1">>, <<"y", "e", "s">>, <<"y">>}

\* the string is one of the true words between runs of whitespace, in any
\* letter case
SpellsTrue(s) ==
    \E w \in TrueWords : \E i \in 0..Len(s) :
        /\ i + Len(w) <= Len(s)
        /\ \A j \in 1..Len(s) :
              IF j > i /\ j <= i + Len(w)
              THEN LowerChar(s[j]) = w[j - i]
              ELSE s[j] \in Whitespace

ExpectedBool(value) ==
    CASE value.t = "bool" -> value.b
      [] value.t = "int" -> ~(value.n = 0)
      [] value.t = "float" -> ~(value.f.k = "fin" /\ value.f.v = 0)
      [] value.t = "str" -> SpellsTrue(value.s)
      [] value.t \in {"null", "list", "dict"} -> FALSE

(* C10: normalize_bool returns the value itself for a boolean, true for a *)
(* non-zero number and false for zero, for a string true exactly when its *)
(* trimmed lower-cased form is one of true, 1, yes, y, and false for any  *)
(* other type; the output loop of an animation is normalize_bool of the   *)
(* source loop key, an absent key giving false.                           *)
C10_Loop ==
    pc = "done" =>
        \A a \in SourceAnims :
            Get(OutAnim(a.k), <<"loop">>, JNull) =
                JBool(IF <<"loop">> \in KeysOf(a.v)
                      THEN ExpectedBool(Get(a.v, <<"loop">>, JNull))
                      ELSE FALSE)

\* a padded, mixed-case yes gave true and a number zero gave false
C10_Witness ==
    /\ pc = "done"
    /\ \E a \in SourceAnims :
          /\ Get(a.v, <<"loop">>, JNull) = JStr(<<" ", "Y", "e", "s", " ">>)
          /\ Get(OutAnim(a.k), <<"loop">>, JNull) = JBool(TRUE)

----------------------------------------------------------------------------
(* A run of main *)

(* C5: when main runs over a directory, a failure while processing one    *)
(* file (a file that cannot be read, text that is not JSON, JSON that is  *)
(* not a mapping, an output that exists without the overwrite flag) never *)
(* aborts the run: convert_file is called for every discovered input file *)
(* and main returns an exit status.                                       *)
C5_BatchNeverAborts ==
    args.input = InputDir =>
        /\ status # "aborted"
        /\ status = "returned" => (calls = found /\ exit_code \in {0, 1})

(* C8: in a run without the overwrite flag, convert_file called with an   *)
(* output path that exists writes nothing, emits a diagnostic and returns *)
(* False, so every file that exists before the run has the same content   *)
(* after it; the existence check precedes reading and parsing the input.  *)
C8_ExistingOutputKept ==
    ~args.overwrite =>
        /\ \A q \in Paths : fs0[q].exists => fs[q] = fs0[q]
        /\ last.existed =>
              /\ ~last.wrote
              /\ last.warned
              /\ ~last.ret
              /\ last.exc = "none"

\* an output was there for an input that cannot be read: the call returned
\* False with no exception, and another file of the run was written
C8_Witness ==
    /\ ~args.overwrite
    /\ last.existed
    /\ fs[last.in_path].exists
    /\ ~fs[last.in_path].readable
    /\ ~last.ret
    /\ \E q \in Paths : ~fs0[q].exists /\ fs[q].exists

----------------------------------------------------------------------------
(* A mapping-form track *)

\* the entry has a time key that parses and a value of at least 3 components
Survives(e) ==
    FloatOfStr(e.k).exc = "none" /\ e.v.t = "list" /\ Len(e.v.items) >= 3

ExpectedKeyframe(e) ==
    JDict(<<KV(<<"time">>, JFloat(FloatOfStr(e.k).f)),
            KV(<<"value">>, JList(SubSeq(e.v.items, 1, 3)))>>)

Bijections(n) == {f \in [1..n -> 1..n] : \A i, j \in 1..n : f[i] = f[j] => i = j}

\* out holds the keyframes of the surviving entries, each once, ascending
\* by time, entries of equal time in the order of the source
StableAscending(out, surv) ==
    /\ Len(out) = Len(surv)
    /\ \E f \in Bijections(Len(surv)) :
          /\ \A i \in 1..Len(out) : out[i] = ExpectedKeyframe(surv[f[i]])
          /\ \A i, j \in 1..Len(out) :
                (i < j /\ TimeOf(out[i]) = TimeOf(out[j])) => f[i] < f[j]
    /\ \A i, j \in 1..Len(out) : i < j => FloatLe(TimeOf(out[i]), TimeOf(out[j]))

(* C7: for every mapping-form track convert_track returns exactly the     *)
(* keyframes {time: parsed time, value: first three components} of the    *)
(* entries whose time key parses as a float and whose value is a sequence *)
(* of length at least 3, no other entry added, ordered ascending by time, *)
(* entries of equal parsed time in the order of the source mapping; the   *)
(* output is never longer than the input.                                 *)
C7_MappingTrack ==
    (pc = "done" /\ input.t = "dict") =>
        /\ result.t = "list"
        /\ StableAscending(result.items, SelectSeq(input.pairs, Survives))
        /\ Len(result.items) <= Len(input.pairs)

====
